---------------------------- MODULE Spec2Model ----------------------------
(***************************************************************************)
(* Model of the Elysium note program (SOL-AR-backend/src/lib.rs): an       *)
(* Anchor program with two instructions, initialize_note and               *)
(* set_permanent, over NoteAccount records stored at program derived       *)
(* addresses.                                                              *)
(*                                                                         *)
(* One transaction carries one instruction.  A transaction is atomic: the  *)
(* ledger commits the account changes of an instruction that returns Ok    *)
(* and discards those of one that returns an error.                        *)
(*                                                                         *)
(* Modelling decisions                                                     *)
(*  - Public keys are numbered 1..NumKeys; 0 is the all-zero default key   *)
(*    of freshly allocated (zeroed) account data.                          *)
(*  - find_program_address is a collision resistant hash of the seeds; the *)
(*    derived address is represented by the seed list itself.              *)
(*  - arweave_hash is a byte string; only its length and content matter,   *)
(*    it is a sequence of bytes.                                           *)
(*  - The accounts structs name note_id in their seeds; the instruction    *)
(*    argument of that name is the one meant.                              *)
(*  - The payer is assumed to hold the lamports for rent exemption.        *)
(*  - The error names of the framework are written with the names the      *)
(*    specification uses: Unauthorized (AccountNotSigner), AddressCollision*)
(*    (the system program's account-already-in-use), RecordNotFound        *)
(*    (AccountNotInitialized).  ConstraintSeeds and AccountDidNotSerialize *)
(*    keep the framework's names.                                          *)
(***************************************************************************)
EXTENDS Integers, Sequences, FiniteSets, Bags, TLC

(***************************************************************************)
(* Bounds of the model.                                                    *)
(***************************************************************************)
NumKeys == 2
MaxNoteId == 1
MaxTimestamp == 1
MaxSteps == 3
MaxBatch == 2
NumOwnerNotes == 2

(***************************************************************************)
(* Sizes of the serialized NoteAccount (borsh) and the allocation.         *)
(***************************************************************************)
DISCRIMINATOR_LEN == 8
PUBKEY_LEN == 32
U64_LEN == 8
STRING_PREFIX_LEN == 4
I64_LEN == 8
BOOL_LEN == 1
HASH_SPACE == 64

\* space = 8 + 32 + 8 + 64 + 8 + 1
SPACE == DISCRIMINATOR_LEN + PUBKEY_LEN + U64_LEN + HASH_SPACE + I64_LEN + BOOL_LEN

\* The longest arweave_hash whose serialization fits SPACE.
MaxFit == SPACE - (DISCRIMINATOR_LEN + PUBKEY_LEN + U64_LEN + STRING_PREFIX_LEN + I64_LEN + BOOL_LEN)

(***************************************************************************)
(* Input domains.                                                          *)
(***************************************************************************)
Keys == 1..NumKeys
NoteIds == 1..MaxNoteId
Timestamps == 1..MaxTimestamp

\* Lengths around the two limits: what fits, and the 64 bytes reserved
\* (MaxFit + 1 is within the 64, HASH_SPACE + 1 beyond).
HashLens == {1, MaxFit, MaxFit + 1, HASH_SPACE + 1}

\* A string of n bytes.  The byte value depends on the length so that two
\* strings of the model differ in content as well as in length.
HashOf(n) == [i \in 1..n |-> 97 + (n % 2)]

Hashes == {HashOf(n) : n \in HashLens}

(***************************************************************************)
(* note_id.to_le_bytes(): the 8 little-endian bytes of a u64.              *)
(***************************************************************************)
RECURSIVE LeBytes(_, _)
LeBytes(n, k) == IF k = 0 THEN <<>> ELSE <<n % 256>> \o LeBytes(n \div 256, k - 1)

to_le_bytes(n) == LeBytes(n, U64_LEN)

\* Seeds without the key of the user.
Seeds_NoUser(user, note_id) == <<"note", to_le_bytes(note_id)>>

\* seeds = [b"note", user.key.as_ref(), note_id.to_le_bytes().as_ref()]
Seeds(user, note_id) == <<"note", user, to_le_bytes(note_id)>>

\* The program derived address of the seeds.
Pda(user, note_id) == Seeds(user, note_id)

Addresses == {Pda(k, n) : k \in Keys, n \in NoteIds}

(***************************************************************************)
(* NoteAccount, with `exists`: whether the address holds an account owned  *)
(* by the program.                                                         *)
(***************************************************************************)
NoAccount ==
    [exists |-> FALSE, owner |-> 0, note_id |-> 0, arweave_hash |-> <<>>,
     timestamp |-> 0, is_permanent |-> FALSE]

\* The account right after allocation: SPACE zero bytes.
ZeroedAccount == [NoAccount EXCEPT !.exists = TRUE]

\* Serialized size of a NoteAccount, discriminator included.
SerializedSize(acc) ==
    DISCRIMINATOR_LEN + PUBKEY_LEN + U64_LEN
        + (STRING_PREFIX_LEN + Len(acc.arweave_hash)) + I64_LEN + BOOL_LEN

\* Account exit: the account is written back into its SPACE bytes.
Serializes(acc) == SerializedSize(acc) <= SPACE

\* accounts:  the ledger, address -> NoteAccount (NoAccount where none exists)
\* created:   the bag of the initialize_note requests that succeeded
\* last:      the transaction just run: request, result and the ledger
\*            before it; none once its result has been returned
\* steps:     the number of transactions run
\* batch:     the requests submitted together (SpecBatch)
\* done:      the result of each request of the batch, "pending" before it ran
VARIABLES accounts, created, last, steps, batch, done

vars == <<accounts, created, last, steps, batch, done>>

(***************************************************************************)
(* Requests: an instruction with its arguments, the user account, whether  *)
(* the user signed, and the address passed as note_account.                *)
(***************************************************************************)
InitRequest(user, signed, addr, note_id, hash, ts) ==
    [op |-> "initialize_note", user |-> user, signed |-> signed,
     note_account |-> addr, note_id |-> note_id, arweave_hash |-> hash,
     timestamp |-> ts]

SealRequest(user, signed, addr, note_id) ==
    [op |-> "set_permanent", user |-> user, signed |-> signed,
     note_account |-> addr, note_id |-> note_id, arweave_hash |-> <<>>,
     timestamp |-> 0]

NoRequest ==
    [op |-> "none", user |-> 0, signed |-> FALSE, note_account |-> <<>>,
     note_id |-> 0, arweave_hash |-> <<>>, timestamp |-> 0]

\* InitializeNote as it would be with init_if_needed: an existing account
\* is accepted.
InitializeNote_NoCollision(accts, req) ==
    IF ~req.signed
      THEN [result |-> "Unauthorized", accounts |-> accts]
    ELSE IF req.note_account # Pda(req.user, req.note_id)
      THEN [result |-> "ConstraintSeeds", accounts |-> accts]
    ELSE [result |-> "Ok",
          accounts |-> [accts EXCEPT ![req.note_account] =
                           IF @.exists THEN @ ELSE ZeroedAccount]]

(***************************************************************************)
(* #[derive(Accounts)] InitializeNote: the checks made before the handler  *)
(* runs.  Yields the error, or Ok and the accounts with note_account       *)
(* allocated.                                                              *)
(***************************************************************************)
InitializeNote(accts, req) ==
    IF ~req.signed
      THEN [result |-> "Unauthorized", accounts |-> accts]
    ELSE IF req.note_account # Pda(req.user, req.note_id)
      THEN [result |-> "ConstraintSeeds", accounts |-> accts]
    ELSE IF accts[req.note_account].exists
      THEN [result |-> "AddressCollision", accounts |-> accts]
    ELSE [result |-> "Ok",
          accounts |-> [accts EXCEPT ![req.note_account] = ZeroedAccount]]

\* initialize_note without the assignment of timestamp.
initialize_note_NoTimestamp(accts, req) ==
    [result |-> "Ok",
     accounts |-> [accts EXCEPT ![req.note_account] =
                      [@ EXCEPT !.owner = req.user,
                                !.note_id = req.note_id,
                                !.arweave_hash = req.arweave_hash,
                                !.is_permanent = FALSE]]]

\* initialize_note without the assignment of owner.
initialize_note_NoOwner(accts, req) ==
    [result |-> "Ok",
     accounts |-> [accts EXCEPT ![req.note_account] =
                      [@ EXCEPT !.note_id = req.note_id,
                                !.arweave_hash = req.arweave_hash,
                                !.timestamp = req.timestamp,
                                !.is_permanent = FALSE]]]

\* initialize_note without the assignment of note_id.
initialize_note_NoNoteId(accts, req) ==
    [result |-> "Ok",
     accounts |-> [accts EXCEPT ![req.note_account] =
                      [@ EXCEPT !.owner = req.user,
                                !.arweave_hash = req.arweave_hash,
                                !.timestamp = req.timestamp,
                                !.is_permanent = FALSE]]]

\* The handler initialize_note.
initialize_note(accts, req) ==
    [result |-> "Ok",
     accounts |-> [accts EXCEPT ![req.note_account] =
                      [@ EXCEPT !.owner = req.user,
                                !.note_id = req.note_id,
                                !.arweave_hash = req.arweave_hash,
                                !.timestamp = req.timestamp,
                                !.is_permanent = FALSE]]]

\* SetPermanent without the check that note_account holds a NoteAccount.
SetPermanent_NoExistenceCheck(accts, req) ==
    IF ~req.signed
      THEN [result |-> "Unauthorized", accounts |-> accts]
    ELSE IF req.note_account # Pda(req.user, req.note_id)
      THEN [result |-> "ConstraintSeeds", accounts |-> accts]
    ELSE [result |-> "Ok", accounts |-> accts]

\* SetPermanent without the seeds constraint.
SetPermanent_NoSeeds(accts, req) ==
    IF ~accts[req.note_account].exists
      THEN [result |-> "RecordNotFound", accounts |-> accts]
    ELSE IF ~req.signed
      THEN [result |-> "Unauthorized", accounts |-> accts]
    ELSE [result |-> "Ok", accounts |-> accts]

(***************************************************************************)
(* #[derive(Accounts)] SetPermanent.                                       *)
(***************************************************************************)
SetPermanent(accts, req) ==
    IF ~accts[req.note_account].exists
      THEN [result |-> "RecordNotFound", accounts |-> accts]
    ELSE IF ~req.signed
      THEN [result |-> "Unauthorized", accounts |-> accts]
    ELSE IF req.note_account # Pda(req.user, req.note_id)
      THEN [result |-> "ConstraintSeeds", accounts |-> accts]
    ELSE [result |-> "Ok", accounts |-> accts]

\* set_permanent flipping the flag instead of setting it.
set_permanent_Toggle(accts, req) ==
    IF accts[req.note_account].note_id # req.note_id
      THEN [result |-> "InvalidNoteId", accounts |-> accts]
    ELSE [result |-> "Ok",
          accounts |-> [accts EXCEPT ![req.note_account].is_permanent = ~@]]

\* set_permanent refusing a record that is sealed already.
set_permanent_RejectSealed(accts, req) ==
    IF accts[req.note_account].note_id # req.note_id
      THEN [result |-> "InvalidNoteId", accounts |-> accts]
    ELSE IF accts[req.note_account].is_permanent
      THEN [result |-> "AlreadyPermanent", accounts |-> accts]
    ELSE [result |-> "Ok",
          accounts |-> [accts EXCEPT ![req.note_account].is_permanent = TRUE]]

\* set_permanent that also resets the timestamp of the record.
set_permanent_ResetsTimestamp(accts, req) ==
    IF accts[req.note_account].note_id # req.note_id
      THEN [result |-> "InvalidNoteId", accounts |-> accts]
    ELSE [result |-> "Ok",
          accounts |-> [accts EXCEPT ![req.note_account] =
                           [@ EXCEPT !.is_permanent = TRUE, !.timestamp = 0]]]

\* The handler set_permanent.
set_permanent(accts, req) ==
    IF accts[req.note_account].note_id # req.note_id
      THEN [result |-> "InvalidNoteId", accounts |-> accts]
    ELSE [result |-> "Ok",
          accounts |-> [accts EXCEPT ![req.note_account].is_permanent = TRUE]]

\* An exit that writes as much of the account as its allocation holds.
Exit_Truncates(res, req) ==
    IF res.result = "Ok" /\ ~Serializes(res.accounts[req.note_account])
      THEN [res EXCEPT !.accounts[req.note_account].arweave_hash =
                          SubSeq(@, 1, MaxFit)]
      ELSE res

\* Exit of the instruction: note_account is serialized into its allocation.
Exit(res, req) ==
    IF res.result = "Ok" /\ ~Serializes(res.accounts[req.note_account])
      THEN [res EXCEPT !.result = "AccountDidNotSerialize"]
      ELSE res

\* The instruction as a whole: account checks, handler, exit.
Instruction(accts, req) ==
    LET checked == IF req.op = "initialize_note"
                     THEN InitializeNote(accts, req)
                     ELSE SetPermanent(accts, req)
        handled == IF checked.result # "Ok" THEN checked
                   ELSE IF req.op = "initialize_note"
                     THEN initialize_note(checked.accounts, req)
                     ELSE set_permanent(checked.accounts, req)
    IN  Exit(handled, req)

\* A ledger that keeps the changes of a failed instruction.
Commit_NoRollback(pre, res) == res.accounts

\* Result<()>: the ledger keeps the changes of Ok and drops those of an error.
Commit(pre, res) == IF res.result = "Ok" THEN res.accounts ELSE pre

Transaction(accts, req) ==
    LET res == Instruction(accts, req)
    IN  [result |-> res.result, accounts |-> Commit(accts, res)]

(***************************************************************************)
(* Specification Spec: transactions arrive one at a time, from any user,   *)
(* signed or not, with any note_account address.                           *)
(***************************************************************************)
EmptyLedger == [a \in Addresses |-> NoAccount]

\* No transaction awaits its result; pre is the ledger as it stands.
Idle(accts) == [req |-> NoRequest, result |-> "none", pre |-> accts]

Init ==
    /\ accounts = EmptyLedger
    /\ created = EmptyBag
    /\ last = Idle(EmptyLedger)
    /\ steps = 0
    /\ batch = <<>>
    /\ done = <<>>

\* The ledger runs the transaction of req, as one atomic step.
Apply(req) ==
    LET tx == Transaction(accounts, req)
    IN  /\ accounts' = tx.accounts
        /\ created' =
             IF req.op = "initialize_note" /\ tx.result = "Ok"
               THEN created (+) SetToBag({req})
               ELSE created
        /\ last' = [req |-> req, result |-> tx.result, pre |-> accounts]
        /\ steps' = steps + 1

\* A transaction with initialize_note, from any user, signed or not, with
\* any address as note_account.
InitializeNoteTx ==
    /\ last.result = "none"
    /\ steps < MaxSteps
    /\ \E user \in Keys, signed \in BOOLEAN, addr \in Addresses,
          note_id \in NoteIds, hash \in Hashes, ts \in Timestamps :
            Apply(InitRequest(user, signed, addr, note_id, hash, ts))
    /\ UNCHANGED <<batch, done>>

\* A transaction with set_permanent.
SetPermanentTx ==
    /\ last.result = "none"
    /\ steps < MaxSteps
    /\ \E user \in Keys, signed \in BOOLEAN, addr \in Addresses,
          note_id \in NoteIds :
            Apply(SealRequest(user, signed, addr, note_id))
    /\ UNCHANGED <<batch, done>>

\* The result is returned to the client.
Confirm ==
    /\ last.result # "none"
    /\ last' = Idle(accounts)
    /\ UNCHANGED <<accounts, created, steps, batch, done>>

Next == InitializeNoteTx \/ SetPermanentTx \/ Confirm

Spec == Init /\ [][Next]_vars

(***************************************************************************)
(* Vocabulary of the properties.                                           *)
(***************************************************************************)
\* The ledger has run the transaction in `last`.
Processed == last.result # "none"

\* The last transaction run was the instruction op.
Was(op) == Processed /\ last.req.op = op

\* The address the last transaction passed as note_account.
Target == last.req.note_account

\* The last request was signed by its user and passed the address derived
\* from (user, note_id): a call of the operation by that user on that note_id.
ByOwner == last.req.signed /\ Target = Pda(last.req.user, last.req.note_id)

Failed == Processed /\ last.result # "Ok"

\* The content hash fits the allocation.
Fits(hash) == Serializes([ZeroedAccount EXCEPT !.arweave_hash = hash])

\* An initialize_note of user on note_id has succeeded.
EverCreated(log, user, note_id) ==
    \E r \in BagToSet(log) : r.user = user /\ r.note_id = note_id

(***************************************************************************)
(* C1: is_permanent is monotonic.  A record is created with is_permanent   *)
(* false, and a record whose is_permanent is true still exists with        *)
(* is_permanent true after every step, whatever the step is.               *)
(***************************************************************************)
C1_PermanentMonotonic ==
    [][\A a \in Addresses :
         /\ (~accounts[a].exists /\ accounts'[a].exists)
               => ~accounts'[a].is_permanent
         /\ (accounts[a].exists /\ accounts[a].is_permanent)
               => (accounts'[a].exists /\ accounts'[a].is_permanent)]_vars

\* A sealed record, and then a signed initialize_note on its own
\* (owner, note_id): the record is still sealed.
C1_Witness ==
    /\ Was("initialize_note") /\ ByOwner
    /\ last.pre[Target].exists /\ last.pre[Target].is_permanent
    /\ accounts[Target].is_permanent

(***************************************************************************)
(* C2: initialize_note by a signer on an (owner, note_id) whose address    *)
(* holds no record, with a content hash that fits the allocation, succeeds *)
(* and leaves at that address the record                                   *)
(* {signer, note_id, content_hash, timestamp, is_permanent = false}.       *)
(***************************************************************************)
C2_CreateStoresArguments ==
    (/\ Was("initialize_note") /\ ByOwner
     /\ ~last.pre[Target].exists
     /\ Fits(last.req.arweave_hash))
    => /\ last.result = "Ok"
       /\ accounts[Target] =
            [exists |-> TRUE, owner |-> last.req.user,
             note_id |-> last.req.note_id,
             arweave_hash |-> last.req.arweave_hash,
             timestamp |-> last.req.timestamp, is_permanent |-> FALSE]

\* A record created with the longest hash that fits and a non-zero timestamp.
C2_Witness ==
    /\ Was("initialize_note") /\ last.result = "Ok"
    /\ ~last.pre[Target].exists
    /\ Len(last.req.arweave_hash) = MaxFit
    /\ last.req.timestamp # 0
    /\ accounts[Target].exists

(***************************************************************************)
(* C3: initialize_note by the owner on an (owner, note_id) whose address   *)
(* holds a record, Draft or Sealed, fails with AddressCollision; no        *)
(* (owner, note_id) is ever created twice.                                 *)
(***************************************************************************)
C3_SecondCreateCollides ==
    /\ (Was("initialize_note") /\ ByOwner /\ last.pre[Target].exists)
          => (last.result = "AddressCollision" /\ accounts = last.pre)
    /\ \A r \in BagToSet(created) : CopiesIn(r, created) = 1
    /\ \A r, q \in BagToSet(created) :
          (r.user = q.user /\ r.note_id = q.note_id) => r = q

\* A second initialize_note, with other arguments, on a sealed record.
C3_Witness ==
    /\ Was("initialize_note") /\ ByOwner
    /\ last.pre[Target].exists /\ last.pre[Target].is_permanent
    /\ last.req.arweave_hash # last.pre[Target].arweave_hash
    /\ Fits(last.req.arweave_hash)
    /\ last.result = "AddressCollision"

(***************************************************************************)
(* C4: set_permanent by the owner on an existing record succeeds and       *)
(* leaves is_permanent true and nothing else changed; on a record that is  *)
(* sealed already it succeeds again and leaves the ledger as it was.       *)
(***************************************************************************)
C4_SealIdempotent ==
    (Was("set_permanent") /\ ByOwner /\ last.pre[Target].exists)
    => /\ last.result = "Ok"
       /\ accounts[Target].is_permanent
       /\ accounts = [last.pre EXCEPT ![Target].is_permanent = TRUE]
       /\ last.pre[Target].is_permanent => accounts = last.pre

\* set_permanent on a record that was sealed before.
C4_Witness ==
    /\ Was("set_permanent") /\ ByOwner
    /\ last.pre[Target].exists /\ last.pre[Target].is_permanent
    /\ last.result = "Ok"

(***************************************************************************)
(* C5: set_permanent by a signer on a (signer, note_id) for which no       *)
(* initialize_note has succeeded fails with RecordNotFound and leaves the  *)
(* ledger as it was.                                                       *)
(***************************************************************************)
C5_SealWithoutRecord ==
    (/\ Was("set_permanent") /\ ByOwner
     /\ ~EverCreated(created, last.req.user, last.req.note_id))
    => /\ last.result = "RecordNotFound"
       /\ accounts = last.pre

\* set_permanent on a missing record while another record exists.
C5_Witness ==
    /\ Was("set_permanent") /\ ByOwner
    /\ ~EverCreated(created, last.req.user, last.req.note_id)
    /\ \E a \in Addresses : accounts[a].exists
    /\ last.result = "RecordNotFound"

(***************************************************************************)
(* C6: the records of the ledger are those of the successful               *)
(* initialize_note requests, each with owner = the signer of its request,  *)
(* and no transaction changes the owner of an existing record.             *)
(***************************************************************************)
C6_OwnerIsCreator ==
    /\ \A r \in BagToSet(created) :
          /\ r.signed
          /\ accounts[r.note_account].exists
          /\ accounts[r.note_account].owner = r.user
    /\ \A a \in Addresses :
          accounts[a].exists
             => \E r \in BagToSet(created) : r.note_account = a
    /\ \A a \in Addresses :
          last.pre[a].exists
             => (accounts[a].exists /\ accounts[a].owner = last.pre[a].owner)

\* Two records of two owners, and a transaction by one owner aimed at the
\* record of the other.
C6_Witness ==
    /\ \E a, b \in Addresses :
          /\ last.pre[a].exists /\ last.pre[b].exists
          /\ last.pre[a].owner # last.pre[b].owner
    /\ Processed /\ last.req.signed
    /\ last.pre[Target].exists
    /\ last.pre[Target].owner # last.req.user

C8_AllocationHoldsMaxHash ==
    (/\ Was("initialize_note") /\ ByOwner
     /\ ~last.pre[Target].exists
     /\ Len(last.req.arweave_hash) <= HASH_SPACE)
    => /\ last.result = "Ok"
       /\ accounts[Target].exists
       /\ accounts[Target].arweave_hash = last.req.arweave_hash

(***************************************************************************)
(* C9, as claimed: set_permanent needs a valid signer only.  A signer who  *)
(* is not the stored owner of an existing record, passing that record and  *)
(* its note_id, seals it.                                                  *)
(***************************************************************************)
C9_AnySignerSeals ==
    (/\ Was("set_permanent") /\ last.req.signed
     /\ last.pre[Target].exists
     /\ last.pre[Target].owner # last.req.user
     /\ last.pre[Target].note_id = last.req.note_id)
    => /\ last.result = "Ok"
       /\ accounts[Target].is_permanent

(***************************************************************************)
(* C9, amended: set_permanent needs a valid signer and makes no comparison *)
(* with the stored owner, but note_account must be the address derived     *)
(* from the signer's key, so a signer who is not the stored owner of a     *)
(* record cannot seal it: the transaction fails and changes nothing.       *)
(* Every set_permanent that succeeds is signed by the stored owner.        *)
(***************************************************************************)
C9_OnlyOwnerSeals ==
    /\ (Was("set_permanent") /\ last.result = "Ok")
          => (last.req.signed /\ last.pre[Target].owner = last.req.user)
    /\ (/\ Was("set_permanent") /\ last.req.signed
        /\ last.pre[Target].exists
        /\ last.pre[Target].owner # last.req.user)
          => (Failed /\ accounts = last.pre)

\* A signer passes the Draft record of another owner, with its note_id.
C9_Witness ==
    /\ Was("set_permanent") /\ last.req.signed
    /\ last.pre[Target].exists
    /\ ~last.pre[Target].is_permanent
    /\ last.pre[Target].owner # last.req.user
    /\ last.pre[Target].note_id = last.req.note_id
    /\ last.result = "ConstraintSeeds"
    /\ ~accounts[Target].is_permanent

(***************************************************************************)
(* Specification SpecBatch: up to MaxBatch requests of one owner on one    *)
(* note_id are submitted together.  The ledger runs the transactions that  *)
(* touch one address one at a time, in an order of its choosing.           *)
(***************************************************************************)
BatchRequests(owner, note_id) ==
    {InitRequest(owner, TRUE, Pda(owner, note_id), note_id, hash, ts) :
        hash \in Hashes, ts \in Timestamps}
      \cup {SealRequest(owner, TRUE, Pda(owner, note_id), note_id)}

InitBatch ==
    /\ accounts = EmptyLedger
    /\ created = EmptyBag
    /\ last = Idle(EmptyLedger)
    /\ steps = 0
    /\ \E owner \in Keys, note_id \in NoteIds, n \in 1..MaxBatch :
          /\ batch \in [1..n -> BatchRequests(owner, note_id)]
          /\ done = [i \in 1..n |-> "pending"]

Execute(i) ==
    /\ done[i] = "pending"
    /\ Apply(batch[i])
    /\ done' = [done EXCEPT ![i] = Transaction(accounts, batch[i]).result]
    /\ UNCHANGED batch

ExecuteInitializeNote ==
    \E i \in 1..Len(batch) : batch[i].op = "initialize_note" /\ Execute(i)

ExecuteSetPermanent ==
    \E i \in 1..Len(batch) : batch[i].op = "set_permanent" /\ Execute(i)

NextBatch == ExecuteInitializeNote \/ ExecuteSetPermanent

SpecBatch == InitBatch /\ [][NextBatch]_vars

\* The ledger after the requests of the batch ran in the given order.
RECURSIVE RunInOrder(_, _)
RunInOrder(accts, order) ==
    IF order = <<>> THEN accts
    ELSE RunInOrder(Transaction(accts, batch[Head(order)]).accounts, Tail(order))

Orders ==
    {f \in [1..Len(batch) -> 1..Len(batch)] :
        \A i, j \in 1..Len(batch) : f[i] = f[j] => i = j}

BatchInits == {i \in 1..Len(batch) : batch[i].op = "initialize_note"}

AllDone == Len(batch) > 0 /\ \A i \in 1..Len(batch) : done[i] # "pending"

(***************************************************************************)
(* C10: requests submitted together on one (owner, note_id) behave as if   *)
(* run one at a time.  Once a batch with an initialize_note, whose content *)
(* hashes are within the 64 bytes, has run: exactly one initialize_note    *)
(* succeeded, every other one failed with AddressCollision, and the ledger *)
(* is the one some sequential order of the requests yields.                *)
(***************************************************************************)
C10_BatchIsSerial ==
    (/\ AllDone
     /\ BatchInits # {}
     /\ \A i \in BatchInits : Len(batch[i].arweave_hash) <= HASH_SPACE)
    => /\ Cardinality({i \in BatchInits : done[i] = "Ok"}) = 1
       /\ \A i \in BatchInits : done[i] \in {"Ok", "AddressCollision"}
       /\ \E order \in Orders : accounts = RunInOrder(EmptyLedger, order)

C12_SealChangesOnlyFlag ==
    (Was("set_permanent") /\ last.result = "Ok")
    => /\ \A a \in Addresses \ {Target} : accounts[a] = last.pre[a]
       /\ accounts[Target].exists = last.pre[Target].exists
       /\ accounts[Target].owner = last.pre[Target].owner
       /\ accounts[Target].note_id = last.pre[Target].note_id
       /\ accounts[Target].arweave_hash = last.pre[Target].arweave_hash
       /\ accounts[Target].timestamp = last.pre[Target].timestamp
       /\ accounts[Target].is_permanent

\* A Draft record is sealed while a record of another owner exists.
C12_Witness ==
    /\ Was("set_permanent") /\ last.result = "Ok"
    /\ ~last.pre[Target].is_permanent
    /\ accounts[Target].is_permanent
    /\ \E a \in Addresses \ {Target} : last.pre[a].exists

(***************************************************************************)
(* C13: records are never deleted and a sealed record is frozen.  A record *)
(* that exists still exists after every step, and a record whose           *)
(* is_permanent is true has the same owner, note_id, content hash,         *)
(* timestamp and is_permanent after every step.                            *)
(***************************************************************************)
C13_SealedIsFrozen ==
    [][\A a \in Addresses :
         /\ accounts[a].exists => accounts'[a].exists
         /\ (accounts[a].exists /\ accounts[a].is_permanent)
               => accounts'[a] = accounts[a]]_vars

\* A sealed record was the target of a further set_permanent by its owner.
C13_Witness ==
    /\ Was("set_permanent") /\ ByOwner
    /\ last.pre[Target].exists /\ last.pre[Target].is_permanent
    /\ accounts[Target] = last.pre[Target]

(***************************************************************************)
(* C14: initialize_note with a content hash that exceeds the capacity of   *)
(* the allocation fails as a whole: it creates no record (on a free        *)
(* address none exists afterwards) and changes none.  Every record holds   *)
(* the content hash supplied to the initialize_note that created it, never *)
(* a shortened one.                                                        *)
(***************************************************************************)
C14_OversizeHashRejected ==
    /\ (Was("initialize_note") /\ ~Fits(last.req.arweave_hash))
          => /\ Failed
             /\ accounts = last.pre
             /\ (ByOwner /\ ~last.pre[Target].exists) => ~accounts[Target].exists
    /\ \A r \in BagToSet(created) :
          accounts[r.note_account].arweave_hash = r.arweave_hash
    /\ \A a \in Addresses :
          accounts[a].exists
             => \E r \in BagToSet(created) :
                   r.note_account = a /\ r.arweave_hash = accounts[a].arweave_hash

\* The owner's initialize_note on a free address with a hash one byte over
\* the capacity: rejected at exit, the address still free.
C14_Witness ==
    /\ Was("initialize_note") /\ ByOwner
    /\ ~last.pre[Target].exists
    /\ Len(last.req.arweave_hash) = MaxFit + 1
    /\ last.result = "AccountDidNotSerialize"
    /\ ~accounts[Target].exists
    /\ accounts = last.pre

(***************************************************************************)
(* Specification SpecNotes: every user calls the two operations on its own *)
(* notes, of which it has up to NumOwnerNotes: each request is signed and  *)
(* passes the address derived from its user and note_id.  (A request that  *)
(* is not leaves the ledger as it was.)                                    *)
(***************************************************************************)
OwnerNoteIds == 1..NumOwnerNotes

OwnerAddresses == {Pda(k, n) : k \in Keys, n \in OwnerNoteIds}

InitNotes ==
    /\ accounts = [a \in OwnerAddresses |-> NoAccount]
    /\ created = EmptyBag
    /\ last = Idle([a \in OwnerAddresses |-> NoAccount])
    /\ steps = 0
    /\ batch = <<>>
    /\ done = <<>>

OwnerInitializeNote ==
    /\ last.result = "none"
    /\ steps < MaxSteps
    /\ \E user \in Keys, note_id \in OwnerNoteIds, hash \in Hashes,
          ts \in Timestamps :
            Apply(InitRequest(user, TRUE, Pda(user, note_id), note_id, hash, ts))
    /\ UNCHANGED <<batch, done>>

OwnerSetPermanent ==
    /\ last.result = "none"
    /\ steps < MaxSteps
    /\ \E user \in Keys, note_id \in OwnerNoteIds :
            Apply(SealRequest(user, TRUE, Pda(user, note_id), note_id))
    /\ UNCHANGED <<batch, done>>

NextNotes == OwnerInitializeNote \/ OwnerSetPermanent \/ Confirm

SpecNotes == InitNotes /\ [][NextNotes]_vars

(***************************************************************************)
(* C15: records of distinct (owner, note_id) pairs are independent.  The   *)
(* owner's initialize_note with a hash that fits fails only if that same   *)
(* owner has created that same note_id before, whatever records other      *)
(* owners or other note_ids have; and an initialize_note that succeeds     *)
(* leaves the record at every other address unchanged.                     *)
(***************************************************************************)
C15_RecordsIndependent ==
    /\ (/\ Was("initialize_note") /\ ByOwner
        /\ Fits(last.req.arweave_hash)
        /\ last.result # "Ok")
          => EverCreated(created, last.req.user, last.req.note_id)
    /\ (Was("initialize_note") /\ last.result = "Ok")
          => \A a \in (DOMAIN accounts) \ {Target} : accounts[a] = last.pre[a]

\* A creates note n after another owner created the same n and A itself
\* created another note_id; both older records are as they were.
C15_Witness ==
    /\ Was("initialize_note") /\ last.result = "Ok"
    /\ \E a, b \in (DOMAIN accounts) \ {Target} :
          /\ last.pre[a].exists
          /\ last.pre[a].owner # last.req.user
          /\ last.pre[a].note_id = last.req.note_id
          /\ last.pre[b].exists
          /\ last.pre[b].owner = last.req.user
          /\ last.pre[b].note_id # last.req.note_id
          /\ accounts[a] = last.pre[a]
          /\ accounts[b] = last.pre[b]
    /\ accounts[Target].exists

=============================================================================
